---- MODULE Spec2Model ----
(***************************************************************************)
(* A model of starter.py: the rule-based planner deterministic_agent, the  *)
(* model-backed planner llm_agent with its fallback, and the reporter      *)
(* compare_workout_planning.                                               *)
(*                                                                         *)
(* Python values are tagged records [t, v]: int, str, fstr (an f-string,   *)
(* kept as its parts), dict (its items in insertion order), list (a        *)
(* reference into the heap of list objects), jlist (a list built by        *)
(* json.loads, never aliased, kept by value) and None.  Printing to stdout *)
(* is not part of the state.                                               *)
(***************************************************************************)
EXTENDS Integers, Sequences, FiniteSets, TLC

VARIABLES
    users,      \* the List[FitnessUser] handed to the driver
    heap,       \* the list objects: heap[a] is the content of the list at address a
    cpc,        \* position of the driver (compare_workout_planning or a direct caller)
    idx,        \* 1-based position of the driver's loop in users
    det_plan,   \* compare_workout_planning's local det_plan
    llm_plan,   \* compare_workout_planning's local llm_plan
    dpc,        \* position inside deterministic_agent
    duser,      \* deterministic_agent's argument, as a position in users
    dret,       \* the call site deterministic_agent returns to
    plan,       \* deterministic_agent's local plan
    i,          \* deterministic_agent's loop variable
    lpc,        \* position inside llm_agent
    result_text,\* llm_agent's local result_text
    e,          \* the exception llm_agent caught
    lret,       \* llm_agent's return value
    luser,      \* llm_agent's argument, as a position in users
    exc,        \* the exception propagating out of the active call, "" when none
    log,        \* observations of completed deterministic_agent calls
    calls       \* the calls made so far: <<callee, call site, position of the user>>

cframe == <<cpc, idx, det_plan, llm_plan>>
dframe == <<dpc, duser, dret, plan, i>>
lframe == <<lpc, luser, result_text, e, lret>>

vars == <<users, heap, cframe, dframe, lframe, exc, log, calls>>

----------------------------------------------------------------------------
(* Bounds *)

LevelSlack == 1
MaxGoals == 3
MaxUsers == 2
MaxCalls == 3

(* The top of the fitness_level scale, "Fitness Level: {..}/5". *)
MaxFitness == 5

----------------------------------------------------------------------------
(* Python values *)

PyInt(n) == [t |-> "int", v |-> n]
PyStr(s) == [t |-> "str", v |-> s]
FStr(parts) == [t |-> "fstr", v |-> parts]
ListRef(a) == [t |-> "list", v |-> a]
JList(xs) == [t |-> "jlist", v |-> xs]
PyBool(b) == [t |-> "bool", v |-> b]
Dict(items) == [t |-> "dict", v |-> items]
None == [t |-> "None", v |-> 0]

Item(name, x) == [key |-> name, val |-> x]

IsDict(x) == x.t = "dict"

(* key in d *)
HasKey(d, name) == \E j \in 1..Len(d.v) : d.v[j].key = name

(* d[key], for a key that is present *)
Get(d, name) == d.v[CHOOSE j \in 1..Len(d.v) : d.v[j].key = name].val

(* d[key] = x: a present key keeps its place, a new key goes last *)
Set(d, name, x) ==
    IF HasKey(d, name)
    THEN Dict([j \in 1..Len(d.v) |-> IF d.v[j].key = name THEN Item(name, x) ELSE d.v[j]])
    ELSE Dict(Append(d.v, Item(name, x)))

(* list(d.keys()), in insertion order *)
Keys(d) == [j \in 1..Len(d.v) |-> d.v[j].key]

(* x in xs, for a list of strings *)
In(x, xs) == \E j \in 1..Len(xs) : xs[j] = x

SeqsBetween(S, lo, hi) == UNION {[1..m -> S] : m \in lo..hi}

----------------------------------------------------------------------------
(* FitnessUser and the users of main() *)

SampleUsers ==
    << [id |-> "U001", age |-> 35, fitness_level |-> 2,
        goals |-> <<"weight management", "stress reduction">>,
        preferences |-> <<"home workouts", "morning routines">>,
        limitations |-> <<"limited equipment", "time constraints (max 30 min/day)">>],
       [id |-> "U002", age |-> 55, fitness_level |-> 3,
        goals |-> <<"joint mobility", "strength building">>,
        preferences |-> <<"outdoor activities", "swimming">>,
        limitations |-> <<"mild joint stiffness">>] >>

Sample(k) == SampleUsers[((k - 1) % Len(SampleUsers)) + 1]

(* The addresses of the three lists a user built k-th holds. *)
GoalsAddr(k) == 3 * (k - 1) + 1
PreferencesAddr(k) == 3 * (k - 1) + 2
LimitationsAddr(k) == 3 * (k - 1) + 3

(* FitnessUser.__init__: the object; its lists live in the heap. *)
FitnessUser(k, level) ==
    [id |-> Sample(k).id, age |-> Sample(k).age, fitness_level |-> level,
     goals |-> GoalsAddr(k), preferences |-> PreferencesAddr(k),
     limitations |-> LimitationsAddr(k)]

(* The lists of the k-th user, in address order. *)
UserLists(k, goals) == <<goals, Sample(k).preferences, Sample(k).limitations>>

LevelSet == (1 - LevelSlack)..(MaxFitness + LevelSlack)

GoalTags == {"weight management", "strength building", "flexibility", "endurance",
             "stress reduction"}

(* Inputs of one call: every level with every goals list up to MaxGoals. *)
PlanInputs == LevelSet \X SeqsBetween(GoalTags, 0, MaxGoals)

(* Inputs of repeated calls: the two users of main(), the first one's     *)
(* goals at another level, a user without goals and one with two known    *)
(* goals.                                                                  *)
RepeatInputs == {<<SampleUsers[1].fitness_level, SampleUsers[1].goals>>,
                 <<SampleUsers[2].fitness_level, SampleUsers[2].goals>>,
                 <<1, SampleUsers[1].goals>>,
                 <<MaxFitness, <<>> >>,
                 <<MaxFitness, <<"strength building", "endurance">> >>}

(* Inputs of the reporter: the goals of main()'s users at every documented level. *)
ReportInputs == (1..MaxFitness) \X {SampleUsers[1].goals, SampleUsers[2].goals}

(* The state after the users of one list were constructed and before the driver runs. *)
InitWith(Lists) ==
    /\ \E inp \in Lists :
          /\ users = [k \in 1..Len(inp) |-> FitnessUser(k, inp[k][1])]
          /\ heap = [a \in 1..(3 * Len(inp)) |->
                        UserLists(((a - 1) \div 3) + 1, inp[((a - 1) \div 3) + 1][2])[((a - 1) % 3) + 1]]
    /\ cpc = "start"
    /\ idx = 1
    /\ det_plan = None
    /\ llm_plan = None
    /\ dpc = "idle"
    /\ duser = 0
    /\ dret = ""
    /\ plan = None
    /\ i = 0
    /\ lpc = "idle"
    /\ result_text = <<>>
    /\ e = ""
    /\ lret = None
    /\ luser = 0
    /\ exc = ""
    /\ log = {}
    /\ calls = <<>>

----------------------------------------------------------------------------
(* deterministic_agent *)

(* Faulty variant of NewPlan: workout_types is the user's goals list itself. *)
NewPlan_alias(h, u) ==
    [heap |-> h,
     plan |-> Dict(<<Item("workout_days", PyInt(3)), Item("session_duration", PyInt(30)),
                     Item("workout_types", ListRef(u.goals)),
                     Item("intensity", PyStr("moderate"))>>)]

(* Faulty variant of NewPlan: every call uses the list the first call made. *)
NewPlan_shared(h, u) ==
    LET first == 3 * Len(users) + 1
        a == IF Len(h) >= first THEN first ELSE Len(h) + 1
    IN  [heap |-> IF a > Len(h) THEN Append(h, <<>>) ELSE h,
         plan |-> Dict(<<Item("workout_days", PyInt(3)), Item("session_duration", PyInt(30)),
                         Item("workout_types", ListRef(a)),
                         Item("intensity", PyStr("moderate"))>>)]

(* plan = {...}: the dict literal, with a new empty list for workout_types *)
NewPlan(h, u) ==
    [heap |-> Append(h, <<>>),
     plan |-> Dict(<<Item("workout_days", PyInt(3)), Item("session_duration", PyInt(30)),
                     Item("workout_types", ListRef(Len(h) + 1)),
                     Item("intensity", PyStr("moderate"))>>)]

(* Faulty variant of SetDays: > for >=. *)
SetDays_gt(p, level) ==
    IF level > 4 THEN Set(p, "workout_days", PyInt(5))
    ELSE IF level > 2 THEN Set(p, "workout_days", PyInt(4))
    ELSE p

(* Faulty variant of SetDays: the days grow with the level. *)
SetDays_scaled(p, level) ==
    IF level >= 2 THEN Set(p, "workout_days", PyInt(level + 1)) ELSE p

(* if fitness_level >= 4 ... elif fitness_level >= 2 ... *)
SetDays(p, level) ==
    IF level >= 4 THEN Set(p, "workout_days", PyInt(5))
    ELSE IF level >= 2 THEN Set(p, "workout_days", PyInt(4))
    ELSE p

(* if fitness_level >= 3 *)
SetDuration(p, level) ==
    IF level >= 3 THEN Set(p, "session_duration", PyInt(45)) ELSE p

(* if fitness_level <= 2 ... elif fitness_level >= 4 ... *)
SetIntensity(p, level) ==
    IF level <= 2 THEN Set(p, "intensity", PyStr("low"))
    ELSE IF level >= 4 THEN Set(p, "intensity", PyStr("high"))
    ELSE p

(* One "if tag in user.goals: workout_types.append(type)". *)
AppendIf(types, goals, tag, type) ==
    IF In(tag, goals) THEN Append(types, type) ELSE types

(* Faulty variant of AppendTypes: one append per goal, in the order of goals. *)
AppendTypes_bygoal(types, goals) ==
    LET TypeOf(g) == CASE g = "weight management" -> <<"cardio">>
                       [] g = "strength building" -> <<"strength training">>
                       [] g = "flexibility" -> <<"stretching">>
                       [] g = "endurance" -> <<"interval training">>
                       [] OTHER -> <<>>
        F[n \in 0..Len(goals)] == IF n = 0 THEN types ELSE F[n - 1] \o TypeOf(goals[n])
    IN  F[Len(goals)]

(* The four appends, in the order of the source. *)
AppendTypes(types, goals) ==
    LET t1 == AppendIf(types, goals, "weight management", "cardio")
        t2 == AppendIf(t1, goals, "strength building", "strength training")
        t3 == AppendIf(t2, goals, "flexibility", "stretching")
    IN  AppendIf(t3, goals, "endurance", "interval training")

(* The list assigned when workout_types is empty. *)
DefaultTypes == <<"general fitness", "light cardio">>

(* Faulty variant of Days: the days in calendar order. *)
DaysCalendar == <<"Monday", "Tuesday", "Wednesday", "Thursday", "Friday", "Saturday">>

(* days = [...] *)
Days == <<"Monday", "Wednesday", "Friday", "Tuesday", "Thursday", "Saturday">>

(* str.capitalize() *)
Capitalize(s) ==
    CASE s = "low" -> "Low"
      [] s = "moderate" -> "Moderate"
      [] s = "high" -> "High"
      [] OTHER -> s

(* Faulty variant of WorkoutTypeAt: no cycling. *)
WorkoutTypeAt_first(types, n) == types[1]

(* plan["workout_types"][n % len(plan["workout_types"])], n counted from 0 *)
WorkoutTypeAt(types, n) == types[(n % Len(types)) + 1]

(* The dict stored under days[n]. *)
Session(p, workout_type) ==
    Dict(<<Item("type", PyStr(workout_type)),
           Item("duration", Get(p, "session_duration")),
           Item("intensity", Get(p, "intensity")),
           Item("description",
                FStr(<<Capitalize(Get(p, "intensity").v), " ", workout_type, " session">>))>>)

(* A value with every list reference replaced by the list's content. *)
Deep(p, h) ==
    Dict([j \in 1..Len(p.v) |->
            IF p.v[j].val.t = "list"
            THEN Item(p.v[j].key, JList(h[p.v[j].val.v]))
            ELSE p.v[j]])

(* The frame of deterministic_agent is gone once the caller has the value. *)
PopDet ==
    /\ dpc' = "idle"
    /\ duser' = 0
    /\ dret' = ""
    /\ plan' = None
    /\ i' = 0

(* A call of deterministic_agent(users[k]) from call site `site`. *)
CallDet(k, site) ==
    /\ dpc = "idle"
    /\ dpc' = "plan"
    /\ duser' = k
    /\ dret' = site
    /\ calls' = Append(calls, <<"deterministic_agent", site, k>>)
    /\ UNCHANGED <<plan, i>>

(* lines 28-33 *)
det_plan_literal ==
    /\ dpc = "plan"
    /\ LET r == NewPlan(heap, users[duser])
       IN  /\ heap' = r.heap
           /\ plan' = r.plan
    /\ dpc' = "days"
    /\ UNCHANGED <<users, cframe, duser, dret, i, lframe, exc, log, calls>>

(* lines 35-38 *)
det_days ==
    /\ dpc = "days"
    /\ plan' = SetDays(plan, users[duser].fitness_level)
    /\ dpc' = "duration"
    /\ UNCHANGED <<users, heap, cframe, duser, dret, i, lframe, exc, log, calls>>

(* lines 40-41 *)
det_duration ==
    /\ dpc = "duration"
    /\ plan' = SetDuration(plan, users[duser].fitness_level)
    /\ dpc' = "intensity"
    /\ UNCHANGED <<users, heap, cframe, duser, dret, i, lframe, exc, log, calls>>

(* lines 43-46 *)
det_intensity ==
    /\ dpc = "intensity"
    /\ plan' = SetIntensity(plan, users[duser].fitness_level)
    /\ dpc' = "types"
    /\ UNCHANGED <<users, heap, cframe, duser, dret, i, lframe, exc, log, calls>>

(* lines 48-55: the appends go to the list plan["workout_types"] refers to *)
det_types ==
    /\ dpc = "types"
    /\ LET a == Get(plan, "workout_types").v
           goals == heap[users[duser].goals]
       IN  heap' = [heap EXCEPT ![a] = AppendTypes(heap[a], goals)]
    /\ dpc' = "default"
    /\ UNCHANGED <<users, cframe, duser, dret, plan, i, lframe, exc, log, calls>>

(* lines 57-61: the default list is a new list; weekly_schedule starts empty *)
det_default ==
    /\ dpc = "default"
    /\ LET a == Get(plan, "workout_types").v
           p == IF heap[a] = <<>>
                THEN Set(plan, "workout_types", ListRef(Len(heap) + 1))
                ELSE plan
       IN  /\ heap' = IF heap[a] = <<>> THEN Append(heap, DefaultTypes) ELSE heap
           /\ plan' = Set(p, "weekly_schedule", Dict(<<>>))
    /\ i' = 0
    /\ dpc' = "loop"
    /\ UNCHANGED <<users, cframe, duser, dret, lframe, exc, log, calls>>

(* lines 63-70: one iteration of the loop, or its end; the modulus by an   *)
(* empty list's length and the index past the end of days raise            *)
det_loop ==
    /\ dpc = "loop"
    /\ LET types == heap[Get(plan, "workout_types").v]
       IN  IF i >= Get(plan, "workout_days").v
           THEN /\ dpc' = "return"
                /\ UNCHANGED <<plan, i, exc>>
           ELSE IF Len(types) = 0
           THEN /\ dpc' = "raised"
                /\ exc' = "ZeroDivisionError"
                /\ UNCHANGED <<plan, i>>
           ELSE IF i >= Len(Days)
           THEN /\ dpc' = "raised"
                /\ exc' = "IndexError"
                /\ UNCHANGED <<plan, i>>
           ELSE /\ plan' = Set(plan, "weekly_schedule",
                               Set(Get(plan, "weekly_schedule"), Days[i + 1],
                                   Session(plan, WorkoutTypeAt(types, i))))
                /\ i' = i + 1
                /\ UNCHANGED <<dpc, exc>>
    /\ UNCHANGED <<users, heap, cframe, duser, dret, lframe, log, calls>>

(* line 72; the log keeps what the caller observes: the argument and the plan *)
det_return ==
    /\ dpc = "return"
    /\ dpc' = "returned"
    /\ log' = log \cup {[fitness_level |-> users[duser].fitness_level,
                         goals |-> heap[users[duser].goals],
                         plan |-> Deep(plan, heap)]}
    /\ UNCHANGED <<users, heap, cframe, duser, dret, plan, i, lframe, exc, calls>>

DetStep ==
    \/ det_plan_literal
    \/ det_days
    \/ det_duration
    \/ det_intensity
    \/ det_types
    \/ det_default
    \/ det_loop
    \/ det_return

----------------------------------------------------------------------------
(* A caller that applies deterministic_agent to each user in turn. *)

caller_call ==
    /\ cpc = "start"
    /\ idx <= Len(users)
    /\ CallDet(idx, "caller")
    /\ cpc' = "det"
    /\ UNCHANGED <<users, heap, idx, det_plan, llm_plan, lframe, exc, log>>

caller_resume ==
    /\ cpc = "det"
    /\ dret = "caller"
    /\ dpc \in {"returned", "raised"}
    /\ PopDet
    /\ IF dpc = "raised"
       THEN /\ cpc' = "crashed"
            /\ UNCHANGED <<det_plan, idx>>
       ELSE /\ det_plan' = plan
            /\ idx' = idx + 1
            /\ cpc' = "start"
    /\ UNCHANGED <<users, heap, llm_plan, lframe, exc, log, calls>>

caller_done ==
    /\ cpc = "start"
    /\ idx > Len(users)
    /\ cpc' = "done"
    /\ UNCHANGED <<users, heap, idx, det_plan, llm_plan, dframe, lframe, exc, log, calls>>

InitPlan == InitWith(SeqsBetween(PlanInputs, 1, 1))

NextPlan == caller_call \/ caller_resume \/ caller_done \/ DetStep

SpecPlan == InitPlan /\ [][NextPlan]_vars

InitRepeat == InitWith(SeqsBetween(RepeatInputs, 1, MaxCalls))

SpecRepeat == InitRepeat /\ [][NextPlan]_vars

----------------------------------------------------------------------------
(* The text the model answers with, as its JSON tokens: punctuation,       *)
(* string literals, numbers, and bare words.                               *)

P(c) == [k |-> "p", v |-> c]
S(str) == [k |-> "s", v |-> str]
N(n) == [k |-> "n", v |-> n]
W(w) == [k |-> "w", v |-> w]

(* A workout object as the prompt describes it. *)
WorkoutText(type, duration, intensity, description) ==
    <<P("{"), S("type"), P(":"), S(type), P(","),
      S("duration"), P(":"), N(duration), P(","),
      S("intensity"), P(":"), S(intensity), P(","),
      S("description"), P(":"), S(description), P("}")>>

(* An answer in the form the prompt asks for. *)
PlanText ==
    <<P("{"), S("reasoning"), P(":"), S("Short sessions fit the client's schedule."), P(","),
      S("weekly_schedule"), P(":"), P("{"),
      S("Monday"), P(":")>> \o WorkoutText("Cardio (Running)", 30, "Moderate", "Maintain a steady pace.")
    \o <<P(","), S("Wednesday"), P(":")>> \o WorkoutText("Rest", 1440, "Low", "Recovery day.")
    \o <<P("}"), P("}")>>

(* An answer that copies the prompt's EXAMPLE OUTPUT, which has no comma   *)
(* between the reasoning string and "weekly_schedule".                     *)
ExampleText ==
    <<P("{"), S("reasoning"), P(":"), S("The client wants to improve his health generally."),
      S("weekly_schedule"), P(":"), P("{"),
      S("Monday"), P(":")>> \o WorkoutText("Strength Training (Upper Body)", 45, "Moderate",
                                          "Focus on chest, shoulders, triceps.")
    \o <<P("}"), P("}")>>

(* An answer in prose. *)
ProseText == <<W("Sorry"), P(","), W("I"), W("cannot"), W("help"), W("with"), W("that")>>

(* Answers that are JSON and not the form asked for. *)
EmptyObjectText == <<P("{"), P("}")>>

EmptyArrayText == <<P("["), P("]")>>

NullText == <<W("null")>>

NoDescriptionText ==
    <<P("{"), S("reasoning"), P(":"), S("Rest."), P(","),
      S("weekly_schedule"), P(":"), P("{"),
      S("Monday"), P(":"), P("{"), S("type"), P(":"), S("Rest"), P(","),
      S("duration"), P(":"), N(1440), P(","), S("intensity"), P(":"), S("Low"), P("}"),
      P("}"), P("}")>>

ListScheduleText ==
    <<P("{"), S("weekly_schedule"), P(":"), P("["), S("Monday"), P(","), S("Tuesday"), P("]"),
      P("}")>>

ResponseTexts == {PlanText, ExampleText, ProseText, EmptyObjectText, EmptyArrayText,
                  NullText, NoDescriptionText, ListScheduleText}

(* What client.responses.create raises when the request fails. *)
RequestErrors == {"APIConnectionError", "APITimeoutError"}

(* str(e) *)
Message(err) ==
    CASE err = "APIConnectionError" -> "Connection error."
      [] err = "APITimeoutError" -> "Request timed out."
      [] err = "JSONDecodeError" -> "Expecting value"
      [] OTHER -> err

----------------------------------------------------------------------------
(* json.loads on the tokens: a parse result is [ok, val, pos], pos the     *)
(* position after the value.                                               *)

ParseFail == [ok |-> FALSE, val |-> None, pos |-> 0]
ParseOk(x, p) == [ok |-> TRUE, val |-> x, pos |-> p]

Tok(ts, p) == IF p \in DOMAIN ts THEN ts[p] ELSE [k |-> "eof", v |-> ""]
IsP(tok, c) == tok.k = "p" /\ tok.v = c

RECURSIVE ParseValue(_, _), ParseMembers(_, _, _), ParseElements(_, _, _)

(* value: a string, a number, null, true, false, an object or an array *)
ParseValue(ts, p) ==
    LET tok == Tok(ts, p)
    IN  CASE tok.k = "s" -> ParseOk(PyStr(tok.v), p + 1)
          [] tok.k = "n" -> ParseOk(PyInt(tok.v), p + 1)
          [] tok.k = "w" -> IF tok.v = "null" THEN ParseOk(None, p + 1)
                            ELSE IF tok.v \in {"true", "false"}
                            THEN ParseOk(PyBool(tok.v = "true"), p + 1)
                            ELSE ParseFail
          [] IsP(tok, "{") -> IF IsP(Tok(ts, p + 1), "}")
                              THEN ParseOk(Dict(<<>>), p + 2)
                              ELSE ParseMembers(ts, p + 1, Dict(<<>>))
          [] IsP(tok, "[") -> IF IsP(Tok(ts, p + 1), "]")
                              THEN ParseOk(JList(<<>>), p + 2)
                              ELSE ParseElements(ts, p + 1, <<>>)
          [] OTHER -> ParseFail

(* string ":" value, then "," and more members, or "}"; a repeated key     *)
(* keeps its last value                                                    *)
ParseMembers(ts, p, acc) ==
    IF Tok(ts, p).k # "s" \/ ~IsP(Tok(ts, p + 1), ":")
    THEN ParseFail
    ELSE LET r == ParseValue(ts, p + 2)
         IN  IF ~r.ok THEN ParseFail
             ELSE IF IsP(Tok(ts, r.pos), "}")
             THEN ParseOk(Set(acc, Tok(ts, p).v, r.val), r.pos + 1)
             ELSE IF IsP(Tok(ts, r.pos), ",")
             THEN ParseMembers(ts, r.pos + 1, Set(acc, Tok(ts, p).v, r.val))
             ELSE ParseFail

(* value, then "," and more elements, or "]" *)
ParseElements(ts, p, acc) ==
    LET r == ParseValue(ts, p)
    IN  IF ~r.ok THEN ParseFail
        ELSE IF IsP(Tok(ts, r.pos), "]")
        THEN ParseOk(JList(Append(acc, r.val)), r.pos + 1)
        ELSE IF IsP(Tok(ts, r.pos), ",")
        THEN ParseElements(ts, r.pos + 1, Append(acc, r.val))
        ELSE ParseFail

(* json.loads(text): one value and nothing after it; ok = FALSE stands for *)
(* json.JSONDecodeError                                                    *)
json_loads(ts) ==
    LET r == ParseValue(ts, 1)
    IN  IF r.ok /\ r.pos = Len(ts) + 1 THEN r ELSE ParseFail

----------------------------------------------------------------------------
(* llm_agent *)

(* Faulty variant of FallbackResult: the schedule is left out. *)
FallbackResult_noschedule(err, fallback) ==
    Dict(<<Item("reasoning", FStr(<<"LLM planning failed: ", Message(err)>>)),
           Item("weekly_schedule", Dict(<<>>)),
           Item("considerations", PyStr("Fallback to rule-based plan."))>>)

(* The dict the except branch returns. *)
FallbackResult(err, fallback) ==
    Dict(<<Item("reasoning", FStr(<<"LLM planning failed: ", Message(err)>>)),
           Item("weekly_schedule", Get(fallback, "weekly_schedule")),
           Item("considerations", PyStr("Fallback to rule-based plan."))>>)

(* The frame of llm_agent is gone once the caller has the value. *)
PopLlm ==
    /\ lpc' = "idle"
    /\ luser' = 0
    /\ result_text' = <<>>
    /\ e' = ""
    /\ lret' = None

(* A call of llm_agent(users[k]). *)
CallLlm(k) ==
    /\ lpc = "idle"
    /\ lpc' = "request"
    /\ luser' = k
    /\ result_text' = <<>>
    /\ e' = ""
    /\ lret' = None

(* lines 78-143: the prompt is built and sent; the request raises or       *)
(* answers with a text                                                     *)
llm_request ==
    /\ lpc = "request"
    /\ \/ \E err \in RequestErrors :
             /\ e' = err
             /\ lpc' = "except"
             /\ UNCHANGED result_text
       \/ \E text \in ResponseTexts :
             /\ result_text' = text
             /\ lpc' = "parse"
             /\ UNCHANGED e
    /\ UNCHANGED <<users, heap, cframe, dframe, luser, lret, exc, log, calls>>

(* line 144: return json.loads(result_text), or the decode error is caught *)
llm_parse ==
    /\ lpc = "parse"
    /\ LET r == json_loads(result_text)
       IN  IF r.ok
           THEN /\ lret' = r.val
                /\ lpc' = "returned"
                /\ UNCHANGED e
           ELSE /\ e' = "JSONDecodeError"
                /\ lpc' = "except"
                /\ UNCHANGED lret
    /\ UNCHANGED <<users, heap, cframe, dframe, luser, result_text, exc, log, calls>>

(* lines 146-147: the handler calls deterministic_agent(user) *)
llm_except ==
    /\ lpc = "except"
    /\ CallDet(luser, "llm_agent")
    /\ lpc' = "fallback"
    /\ UNCHANGED <<users, heap, cframe, luser, result_text, e, lret, exc, log>>

(* lines 147-152: fallback = the plan returned; an exception of the call   *)
(* would leave llm_agent                                                   *)
llm_fallback_return ==
    /\ lpc = "fallback"
    /\ dret = "llm_agent"
    /\ dpc \in {"returned", "raised"}
    /\ PopDet
    /\ IF dpc = "raised"
       THEN /\ lpc' = "raised"
            /\ UNCHANGED lret
       ELSE /\ lret' = FallbackResult(e, plan)
            /\ lpc' = "returned"
    /\ UNCHANGED <<users, heap, cframe, luser, result_text, e, exc, log, calls>>

LlmStep ==
    \/ llm_request
    \/ llm_parse
    \/ llm_except
    \/ llm_fallback_return

----------------------------------------------------------------------------
(* compare_workout_planning *)

(* The keys lines 172-173 read of a workout of det_plan, and lines        *)
(* 178-180 of a workout of llm_plan.                                       *)
DetFields == {"type", "intensity", "duration"}
LlmFields == {"type", "intensity", "duration", "description"}

(* What the subscripts workout[name] raise on one value of the schedule,   *)
(* "" when nothing.                                                        *)
WorkoutError(workout, names) ==
    IF ~IsDict(workout) THEN "TypeError"
    ELSE IF \E name \in names : ~HasKey(workout, name) THEN "KeyError"
    ELSE ""

(* What "for day, workout in p["weekly_schedule"].items()" and its body    *)
(* raise on a dict p: the subscript on a dict without the key, .items()    *)
(* on a schedule that is no dict, then the first workout that raises.      *)
ScheduleError(p, names) ==
    IF ~HasKey(p, "weekly_schedule") THEN "KeyError"
    ELSE LET ws == Get(p, "weekly_schedule")
         IN  IF ~IsDict(ws) THEN "AttributeError"
             ELSE IF \A j \in 1..Len(ws.v) : WorkoutError(ws.v[j].val, names) = ""
             THEN ""
             ELSE WorkoutError(ws.v[CHOOSE j \in 1..Len(ws.v) :
                                       /\ WorkoutError(ws.v[j].val, names) # ""
                                       /\ \A m \in 1..(j - 1) :
                                             WorkoutError(ws.v[m].val, names) = ""].val,
                               names)

(* What lines 177-181 raise on the value llm_agent returned: .get on a     *)
(* value that is no dict, then the loop over its schedule.                 *)
ReportError(p) ==
    IF ~IsDict(p) THEN "AttributeError" ELSE ScheduleError(p, LlmFields)

(* lines 163-170: the header of the user at idx, then deterministic_agent(user) *)
cmp_header ==
    /\ cpc = "start"
    /\ idx <= Len(users)
    /\ CallDet(idx, "compare")
    /\ cpc' = "det"
    /\ UNCHANGED <<users, heap, idx, det_plan, llm_plan, lframe, exc, log>>

(* lines 170-175: det_plan is printed, then llm_agent(user) *)
cmp_det_returned ==
    /\ cpc = "det"
    /\ dret = "compare"
    /\ dpc \in {"returned", "raised"}
    /\ PopDet
    /\ IF dpc = "raised"
       THEN /\ cpc' = "crashed"
            /\ UNCHANGED <<det_plan, lframe, exc, calls>>
       ELSE /\ det_plan' = plan
            /\ IF ScheduleError(plan, DetFields) # ""
               THEN /\ cpc' = "crashed"
                    /\ exc' = ScheduleError(plan, DetFields)
                    /\ UNCHANGED <<lframe, calls>>
               ELSE /\ CallLlm(idx)
                    /\ calls' = Append(calls, <<"llm_agent", "compare", idx>>)
                    /\ cpc' = "llm"
                    /\ UNCHANGED exc
    /\ UNCHANGED <<users, heap, idx, llm_plan, log>>

(* line 175: llm_plan = the value returned *)
cmp_llm_returned ==
    /\ cpc = "llm"
    /\ lpc \in {"returned", "raised"}
    /\ PopLlm
    /\ IF lpc = "raised"
       THEN /\ cpc' = "crashed"
            /\ UNCHANGED llm_plan
       ELSE /\ llm_plan' = lret
            /\ cpc' = "report"
    /\ UNCHANGED <<users, heap, idx, det_plan, dframe, exc, log, calls>>

(* lines 176-181: llm_plan is printed; an exception ends the function,     *)
(* otherwise the loop goes to the next user and the locals are rebound     *)
(* before they are read again                                              *)
cmp_report ==
    /\ cpc = "report"
    /\ IF ReportError(llm_plan) # ""
       THEN /\ cpc' = "crashed"
            /\ exc' = ReportError(llm_plan)
            /\ UNCHANGED <<idx, det_plan, llm_plan>>
       ELSE /\ idx' = idx + 1
            /\ cpc' = "start"
            /\ det_plan' = None
            /\ llm_plan' = None
            /\ UNCHANGED exc
    /\ UNCHANGED <<users, heap, dframe, lframe, log, calls>>

(* the loop of line 163 is over *)
cmp_done ==
    /\ cpc = "start"
    /\ idx > Len(users)
    /\ cpc' = "done"
    /\ UNCHANGED <<users, heap, idx, det_plan, llm_plan, dframe, lframe, exc, log, calls>>

CompareStep ==
    \/ cmp_header
    \/ cmp_det_returned
    \/ cmp_llm_returned
    \/ cmp_report
    \/ cmp_done

Init == InitWith(SeqsBetween(ReportInputs, 1, MaxUsers))

Next == CompareStep \/ LlmStep \/ DetStep

Spec == Init /\ [][Next]_vars

----------------------------------------------------------------------------
(* What a completed call of deterministic_agent shows. *)

Returned == dpc = "returned"
ArgLevel == users[duser].fitness_level
ArgGoals == heap[users[duser].goals]
PlanDays == Get(plan, "workout_days").v
PlanDuration == Get(plan, "session_duration").v
PlanIntensity == Get(plan, "intensity").v
PlanTypes == heap[Get(plan, "workout_types").v]
PlanSchedule == Get(plan, "weekly_schedule")

(* The selection order of the days and the goal table, as the specification states them. *)
DayOrder == <<"Monday", "Wednesday", "Friday", "Tuesday", "Thursday", "Saturday">>

GoalTable == << <<"weight management", "cardio">>, <<"strength building", "strength training">>,
                <<"flexibility", "stretching">>, <<"endurance", "interval training">> >>

(* The types of the table rows whose tag occurs in goals, in table order. *)
TableTypes(goals) ==
    LET F[n \in 0..Len(GoalTable)] ==
            IF n = 0 THEN <<>>
            ELSE IF \E j \in DOMAIN goals : goals[j] = GoalTable[n][1]
                 THEN Append(F[n - 1], GoalTable[n][2])
                 ELSE F[n - 1]
    IN  F[Len(GoalTable)]

(* C1: for fitness_level 1..5 the returned workout_days, session_duration  *)
(* and intensity are (3,30,low), (4,30,low), (4,45,moderate), (5,45,high), *)
(* (5,45,high), whatever the goals.                                        *)
C1_ParamsByLevel ==
    (Returned /\ ArgLevel \in 1..5) =>
        <<PlanDays, PlanDuration, PlanIntensity>> =
            CASE ArgLevel = 1 -> <<3, 30, "low">>
              [] ArgLevel = 2 -> <<4, 30, "low">>
              [] ArgLevel = 3 -> <<4, 45, "moderate">>
              [] ArgLevel = 4 -> <<5, 45, "high">>
              [] ArgLevel = 5 -> <<5, 45, "high">>

C1_Witness ==
    /\ Returned
    /\ ArgLevel = 4
    /\ ArgGoals # <<>>
    /\ PlanDays = 5

(* C2: workout_types is the table's types whose tag occurs in goals, in    *)
(* table order and without duplicates, and [general fitness, light cardio] *)
(* when no tag matches.                                                    *)
C2_TypesFollowTable ==
    Returned =>
        /\ PlanTypes = IF TableTypes(ArgGoals) = <<>>
                       THEN <<"general fitness", "light cardio">>
                       ELSE TableTypes(ArgGoals)
        /\ \A m, n \in DOMAIN PlanTypes : PlanTypes[m] = PlanTypes[n] => m = n

C2_Witness ==
    /\ Returned
    /\ ArgGoals = <<"endurance", "weight management">>
    /\ PlanTypes = <<"cardio", "interval training">>

(* C3: weekly_schedule has exactly workout_days entries and its keys, in   *)
(* insertion order, are the first workout_days days of the selection order.*)
C3_ScheduleKeys ==
    Returned =>
        /\ Len(PlanSchedule.v) = PlanDays
        /\ PlanDays <= Len(DayOrder)
        /\ Keys(PlanSchedule) = SubSeq(DayOrder, 1, PlanDays)

C3_Witness ==
    /\ Returned
    /\ Keys(PlanSchedule) = <<"Monday", "Wednesday", "Friday", "Tuesday", "Thursday">>

(* C4: the session of the n-th selected day has type                       *)
(* workout_types[n mod len(workout_types)], the plan's session_duration    *)
(* and the plan's intensity; level 5 with strength building and endurance  *)
(* alternates strength training and interval training over five days.      *)
C4_RoundRobin ==
    Returned =>
        /\ \A n \in 0..(PlanDays - 1) :
              /\ n + 1 <= Len(PlanSchedule.v)
              /\ PlanSchedule.v[n + 1].key = DayOrder[n + 1]
              /\ Get(PlanSchedule.v[n + 1].val, "type") =
                     PyStr(PlanTypes[(n % Len(PlanTypes)) + 1])
              /\ Get(PlanSchedule.v[n + 1].val, "duration") = PyInt(PlanDuration)
              /\ Get(PlanSchedule.v[n + 1].val, "intensity") = PyStr(PlanIntensity)
        /\ (ArgLevel = 5 /\ ArgGoals = <<"strength building", "endurance">>) =>
              [n \in 1..Len(PlanSchedule.v) |->
                  <<PlanSchedule.v[n].key, Get(PlanSchedule.v[n].val, "type").v>>] =
              << <<"Monday", "strength training">>, <<"Wednesday", "interval training">>,
                 <<"Friday", "strength training">>, <<"Tuesday", "interval training">>,
                 <<"Thursday", "strength training">> >>

C4_Witness ==
    /\ Returned
    /\ ArgLevel = 5
    /\ ArgGoals = <<"strength building", "endurance">>
    /\ Len(PlanSchedule.v) = 5

C7_Deterministic ==
    \A a, b \in log :
        (a.fitness_level = b.fitness_level /\ a.goals = b.goals) => a.plan = b.plan

C7_Witness ==
    /\ cpc = "done"
    /\ Len(users) = 3
    /\ users[1].fitness_level = users[3].fitness_level
    /\ heap[users[1].goals] = heap[users[3].goals]
    /\ heap[users[1].goals] # heap[users[2].goals]
    /\ Cardinality(log) = 2

----------------------------------------------------------------------------
(* What a completed call of llm_agent shows. *)

LlmReturned == lpc = "returned"

(* The answers json.loads rejects. *)
NotJson == {ExampleText, ProseText}

(* C5: when the request raises or times out, or the answer is no JSON,     *)
(* llm_agent returns the weekly_schedule deterministic_agent returned for  *)
(* the same user, a reasoning that describes the failure and a             *)
(* considerations that notes the fallback.                                 *)
C5_FallbackOnFailure ==
    /\ lpc # "raised"
    /\ (LlmReturned /\ (e # "" \/ result_text \in NotJson)) =>
          /\ e \in RequestErrors \cup {"JSONDecodeError"}
          /\ luser = idx
          /\ IsDict(lret)
          /\ Keys(lret) = <<"reasoning", "weekly_schedule", "considerations">>
          /\ Get(lret, "weekly_schedule") = Get(det_plan, "weekly_schedule")
          /\ Get(lret, "reasoning") = FStr(<<"LLM planning failed: ", Message(e)>>)
          /\ Get(lret, "considerations") = PyStr("Fallback to rule-based plan.")

C5_Witness ==
    /\ LlmReturned
    /\ result_text = ExampleText
    /\ e = "JSONDecodeError"
    /\ Len(Get(lret, "weekly_schedule").v) = 5

(* A workout with type, duration, intensity and description. *)
IsWorkout(w) ==
    /\ IsDict(w)
    /\ \A name \in {"type", "duration", "intensity", "description"} : HasKey(w, name)

(* A mapping with a weekly_schedule from day names to workouts. *)
IsWeeklyPlan(p) ==
    /\ IsDict(p)
    /\ HasKey(p, "weekly_schedule")
    /\ IsDict(Get(p, "weekly_schedule"))
    /\ \A j \in 1..Len(Get(p, "weekly_schedule").v) :
          IsWorkout(Get(p, "weekly_schedule").v[j].val)

(* C6: whatever the request raised or answered, llm_agent raises nothing   *)
(* and returns a mapping with a weekly_schedule of workouts that have      *)
(* type, duration, intensity and description.                              *)
C6_AlwaysPlanShaped ==
    /\ lpc # "raised"
    /\ LlmReturned => IsWeeklyPlan(lret)

(* The calls compare_workout_planning itself made, in order. *)
ReporterCalls == SelectSeq(calls, LAMBDA c : c[2] = "compare")

(* C9: once compare_workout_planning has ended, it has called              *)
(* deterministic_agent and then llm_agent for every user of the list, in   *)
(* list order.                                                             *)
C9_BothPlannersEveryUser ==
    cpc \in {"done", "crashed"} =>
        ReporterCalls =
            [n \in 1..(2 * Len(users)) |->
                IF n % 2 = 1
                THEN <<"deterministic_agent", "compare", (n + 1) \div 2>>
                ELSE <<"llm_agent", "compare", n \div 2>>]

(* The user at position k with its lists read from the heap. *)
UserView(k) ==
    [id |-> users[k].id, age |-> users[k].age, fitness_level |-> users[k].fitness_level,
     goals |-> heap[users[k].goals], preferences |-> heap[users[k].preferences],
     limitations |-> heap[users[k].limitations]]

UserAddrs == UNION {{users[k].goals, users[k].preferences, users[k].limitations} :
                    k \in 1..Len(users)}

(* The lists a dict refers to. *)
ListsOf(x) ==
    IF IsDict(x)
    THEN {x.v[j].val.v : j \in {m \in 1..Len(x.v) : x.v[m].val.t = "list"}}
    ELSE {}

NoSharedList ==
    \A x \in {plan, det_plan, lret, llm_plan} : ListsOf(x) \cap UserAddrs = {}

(* C10: no step, of a direct call or of the call in llm_agent's fallback,  *)
(* changes a user's id, age, fitness_level, goals, preferences or          *)
(* limitations, and no plan refers to a list of a user.                    *)
C10_UserUntouched ==
    [][/\ Len(users') = Len(users)
       /\ \A k \in 1..Len(users) : UserView(k)' = UserView(k)
       /\ NoSharedList']_vars

C10_Witness ==
    /\ LlmReturned
    /\ e = "APITimeoutError"
    /\ luser = 2
    /\ heap[users[2].goals] = <<"weight management", "stress reduction">>
    /\ Get(lret, "weekly_schedule") = Get(det_plan, "weekly_schedule")

====
